---- MODULE Spec2Model ----
(***************************************************************************)
(* Model of src/fastapi/main.py: the three ingestion endpoints             *)
(* upload_data, ingest_kaggle_data and load_raw_to_db, with the S3 stage,  *)
(* the kagglehub download directory and the PostgreSQL table               *)
(* heart_disease_raw they act on.                                          *)
(*                                                                         *)
(* Strings are sequences of one-character strings, so that str.split,      *)
(* the f-string key and S3's key order are computed and not assumed.       *)
(* A CSV body is the sequence of its lines ("" is a blank line).           *)
(* Every call to boto3, kagglehub, the filesystem, pandas or the database  *)
(* either returns or raises; which of the two is chosen with \E.           *)
(***************************************************************************)
EXTENDS Integers, Sequences, FiniteSets, TLC

(***************************************************************************)
(* Bounds of the model.                                                    *)
(***************************************************************************)
\* time.time() is read from a clock that ticks up to MaxTime seconds.
MaxTime == 1
\* At most MaxCalls endpoint invocations are started in one behaviour.
MaxCalls == 4

\* list_objects_v2 is called once, without ContinuationToken (line 139):
\* S3 answers with at most MaxKeys keys, the first in key order.  S3's
\* default is 1000; the model scales it down.
MaxKeys == 2

\* The worker tasks that can run an endpoint.
Procs == {"w1", "w2"}
Main == "w1"

(***************************************************************************)
(* Inputs.                                                                 *)
(***************************************************************************)
F_t_csv   == <<"t", ".", "c", "s", "v">>
F_t_b_csv == <<"t", ".", "b", ".", "c", "s", "v">>
F_t       == <<"t">>

\* "a,b\n1,2\n", an empty file, a file with a blank line and two data rows,
\* a header-only file with another schema.
P_ab1   == <<"a,b", "1,2">>
P_empty == <<>>
P_ab2   == <<"a,b", "", "3,4", "1,2">>
P_x     == <<"x">>

\* UploadFile: filename is Optional[str] (hasFilename = FALSE is None).
UploadFiles ==
    { [hasFilename |-> TRUE, filename |-> F_t_csv, body |-> P_ab1],
      [hasFilename |-> TRUE, filename |-> F_t_b_csv, body |-> P_empty],
      [hasFilename |-> TRUE, filename |-> F_t, body |-> P_x],
      [hasFilename |-> FALSE, filename |-> <<>>, body |-> P_ab1] }

\* What kagglehub.dataset_download may leave in the directory it returns:
\* the files in the filesystem's enumeration order.
F_h_csv == <<"h", ".", "c", "s", "v">>
F_n_txt == <<"n", ".", "t", "x", "t">>
Downloads ==
    { <<[name |-> F_n_txt, body |-> P_x]>>,
      <<[name |-> F_n_txt, body |-> P_x], [name |-> F_t_csv, body |-> P_ab2],
        [name |-> F_h_csv, body |-> P_ab1]>> }

(***************************************************************************)
(* Python and S3 helpers.                                                  *)
(***************************************************************************)
Last(s) == s[Len(s)]

\* str.split('.')
RECURSIVE split(_)
split(s) ==
    IF \A i \in 1..Len(s) : s[i] # "."
    THEN <<s>>
    ELSE LET i == CHOOSE j \in 1..Len(s) :
                    s[j] = "." /\ \A k \in 1..(j-1) : s[k] # "."
         IN <<SubSeq(s, 1, i-1)>> \o split(SubSeq(s, i+1, Len(s)))

\* str(int): decimal digits.
Digits == <<"0", "1", "2", "3", "4", "5", "6", "7", "8", "9">>
RECURSIVE str(_)
str(n) == IF n < 10 THEN <<Digits[n+1]>>
          ELSE str(n \div 10) \o <<Digits[(n % 10) + 1]>>

s3_prefix == <<"r", "a", "w", "_", "d", "a", "t", "a", "/">>
dot_csv == <<".", "c", "s", "v">>

\* A variant of upload_key: the base taken as os.path.splitext would, all
\* that precedes the last dot.
upload_key_Splitext(filename, timestamp) ==
    LET parts == split(filename)
        n == Len(filename) - Len(Last(parts)) - 1
    IN s3_prefix \o (IF Len(parts) = 1 THEN filename ELSE SubSeq(filename, 1, n))
                 \o <<"_">> \o str(timestamp) \o <<".">> \o Last(parts)

\* f"raw_data/{file_name_base}_{timestamp}.{file_extension}"  (line 36)
upload_key(filename, timestamp) ==
    s3_prefix \o split(filename)[1] \o <<"_">> \o str(timestamp)
              \o <<".">> \o Last(split(filename))

\* f"raw_data/{file_name.split('.')[0]}_{timestamp}.csv"  (line 89)
kaggle_key(file_name, timestamp) ==
    s3_prefix \o split(file_name)[1] \o <<"_">> \o str(timestamp) \o dot_csv

\* f"s3://{bucket_name}/{s3_key}"
s3_url(key) == <<"s", "3", ":", "/", "/", "bucket", "/">> \o key

\* glob.glob(f"{path_to_dir}/*.csv"): the files whose name ends in .csv,
\* in enumeration order.
EndsWithCsv(name) ==
    /\ Len(name) >= Len(dot_csv)
    /\ SubSeq(name, Len(name) - Len(dot_csv) + 1, Len(name)) = dot_csv
glob_csv(files) == SelectSeq(files, LAMBDA f : EndsWithCsv(f.name))

\* The code points of the characters keys are made of.
Ord(c) ==
    CASE c = "." -> 46 [] c = "/" -> 47
      [] c = "0" -> 48 [] c = "1" -> 49 [] c = "2" -> 50 [] c = "3" -> 51
      [] c = "4" -> 52 [] c = "5" -> 53 [] c = "6" -> 54 [] c = "7" -> 55
      [] c = "8" -> 56 [] c = "9" -> 57
      [] c = "_" -> 95 [] c = "a" -> 97 [] c = "b" -> 98 [] c = "c" -> 99
      [] c = "d" -> 100 [] c = "h" -> 104 [] c = "n" -> 110
      [] c = "r" -> 114 [] c = "s" -> 115 [] c = "t" -> 116
      [] c = "v" -> 118 [] c = "w" -> 119 [] c = "x" -> 120

\* S3 lists keys in UTF-8 binary order.
RECURSIVE KeyLess(_, _)
KeyLess(a, b) ==
    IF a = <<>> THEN b # <<>>
    ELSE IF b = <<>> THEN FALSE
    ELSE IF Head(a) = Head(b) THEN KeyLess(Tail(a), Tail(b))
    ELSE Ord(Head(a)) < Ord(Head(b))

\* The objects of the stage, in key order.
RECURSIVE InKeyOrder(_)
InKeyOrder(objs) ==
    IF objs = {} THEN <<>>
    ELSE LET o == CHOOSE x \in objs :
                    \A y \in objs \ {x} : KeyLess(x.Key, y.Key)
         IN <<o>> \o InKeyOrder(objs \ {o})

\* response['Contents'] of one list_objects_v2 call: the first MaxKeys
\* objects under the prefix, (Key, LastModified) each.
list_objects_v2(objs) ==
    LET all == InKeyOrder(objs)
        n == IF Len(all) < MaxKeys THEN Len(all) ELSE MaxKeys
    IN [i \in 1..n |-> [Key |-> all[i].Key,
                        LastModified |-> all[i].LastModified]]

\* max(contents, key=lambda x: x['LastModified']): the first maximal item.
max_LastModified(contents) ==
    contents[CHOOSE i \in 1..Len(contents) :
                /\ \A j \in 1..Len(contents) :
                      contents[j].LastModified <= contents[i].LastModified
                /\ \A j \in 1..(i-1) :
                      contents[j].LastModified < contents[i].LastModified]

\* A variant of put_object: the write prunes what was staged before.
put_object_Prune(objs, key, body, now) ==
    {[Key |-> key, Body |-> body, LastModified |-> now]}

\* put_object: the object under Key is created, or replaced if it exists.
put_object(objs, key, body, now) ==
    {o \in objs : o.Key # key}
      \cup {[Key |-> key, Body |-> body, LastModified |-> now]}

\* get_object(...)['Body'].read()
get_object(objs, key) == (CHOOSE o \in objs : o.Key = key).Body

\* pd.read_csv: blank lines are skipped, the first line left is the header,
\* the others are the rows; nothing left raises EmptyDataError.
read_csv_fails(body) == SelectSeq(body, LAMBDA l : l # "") = <<>>
read_csv(body) ==
    LET lines == SelectSeq(body, LAMBDA l : l # "")
    IN [columns |-> Head(lines), rows |-> Tail(lines)]

\* The table heart_disease_raw: absent, or left by an earlier deployment.
NoTable == [exists |-> FALSE, columns |-> "", rows |-> <<>>]
OldTable == [exists |-> TRUE, columns |-> "old", rows |-> <<"0">>]

\* A variant of to_sql: the table is dropped before, and outside, the
\* transaction that fills it.
to_sql_DropFirst(tbl, df, ok) ==
    IF ok THEN [exists |-> TRUE, columns |-> df.columns, rows |-> df.rows]
    ELSE NoTable

\* A variant of to_sql: if_exists='append'.
to_sql_Append(tbl, df, ok) ==
    IF ok THEN [exists |-> TRUE, columns |-> df.columns,
                rows |-> tbl.rows \o df.rows]
    ELSE tbl

\* df.to_sql(name, engine, if_exists='replace', index=False): the table is
\* dropped and recreated from the frame, in one transaction.
to_sql(tbl, df, ok) ==
    IF ok THEN [exists |-> TRUE, columns |-> df.columns, rows |-> df.rows]
    ELSE tbl

(***************************************************************************)
(* State.                                                                  *)
(***************************************************************************)
VARIABLES
    clock,      \* time.time(), and the time S3 stamps a write with
    stage,      \* the objects of the bucket: [Key, Body, LastModified]
    table,      \* the table heart_disease_raw
    dirs,       \* the download directories that exist on disk
    pc,         \* where each task is in its endpoint
    loc,        \* each task's local variables
    result,     \* what each task's endpoint returned
    calls,      \* the number of invocations started
    replaced    \* history: the last to_sql that was applied

vars == <<clock, stage, table, dirs, pc, loc, result, calls, replaced>>

NoFile == [hasFilename |-> FALSE, filename |-> <<>>, body |-> <<>>]
NoLocal == [name |-> <<>>, body |-> <<>>]
NoItem == [Key |-> <<>>, LastModified |-> -1]
NoFrame == [columns |-> "", rows |-> <<>>]
NoResult == [status |-> "", code |-> 0, message |-> "",
             s3_path |-> <<>>, rows_loaded |-> -1]
NoReplace == [n |-> 0, Key |-> <<>>, LastModified |-> -1, newest |-> -1,
              body |-> <<>>]

NoLocals ==
    [op |-> "", file |-> NoFile, timestamp |-> 0, s3_key |-> <<>>,
     file_content |-> <<>>, path_to_dir |-> 0, local_file |-> NoLocal,
     latest |-> NoItem, df |-> NoFrame, pending |-> NoResult,
     \* history, not program state:
     table0 |-> NoTable,     \* the table when the endpoint was called
     listed |-> 0,           \* 1 once list_objects_v2 has answered
     seen |-> 0,             \* the number of objects under the prefix then
     newest |-> -1,          \* the greatest LastModified among them
     finally_runs |-> 0,     \* executions of the finally block
     rmtree_calls |-> 0,     \* calls of shutil.rmtree
     sink_calls |-> 0]       \* calls of to_sql

\* JSONResponse(content={"status": "sucesso", ...}), status code 200.
Sucesso(message, path, rows) ==
    [status |-> "sucesso", code |-> 200, message |-> message,
     s3_path |-> path, rows_loaded |-> rows]
\* JSONResponse(status_code=code, content={"status": "erro", ...}).
Erro(code, message) ==
    [status |-> "erro", code |-> code, message |-> message,
     s3_path |-> <<>>, rows_loaded |-> -1]
\* An exception that leaves the endpoint function: no JSONResponse is built.
Unhandled ==
    [status |-> "unhandled", code |-> 500, message |-> "",
     s3_path |-> <<>>, rows_loaded |-> -1]

Init ==
    /\ clock = 0
    /\ stage = {}
    /\ table \in {NoTable, OldTable}
    /\ dirs = {}
    /\ pc = [p \in Procs |-> "idle"]
    /\ loc = [p \in Procs |-> NoLocals]
    /\ result = [p \in Procs |-> NoResult]
    /\ calls = 0
    /\ replaced = NoReplace

Free(p) == pc[p] = "idle"
AllFree == \A p \in Procs : Free(p)

\* The endpoint returns r: the task's result is set and it is done.
Finish(p, r, l) ==
    /\ pc' = [pc EXCEPT ![p] = "done"]
    /\ result' = [result EXCEPT ![p] = r]
    /\ loc' = [loc EXCEPT ![p] = l]

Goto(p, label, l) ==
    /\ pc' = [pc EXCEPT ![p] = label]
    /\ loc' = [loc EXCEPT ![p] = l]
    /\ UNCHANGED result

\* What every invocation starts with.
Called(p, op) ==
    [NoLocals EXCEPT !.op = op, !.table0 = table]

(***************************************************************************)
(* upload_data  (lines 26-58)                                              *)
(***************************************************************************)
\* Lines 30-36, before the try: the client, the timestamp and the key.
\* boto3.client may raise; file.filename.split raises when filename is None.
UploadCall(p, file, clientOk) ==
    /\ Free(p)
    /\ calls < MaxCalls
    /\ calls' = calls + 1
    /\ IF clientOk /\ file.hasFilename
       THEN Goto(p, "up_read",
                 [Called(p, "upload") EXCEPT
                     !.file = file,
                     !.timestamp = clock,
                     !.s3_key = upload_key(file.filename, clock)])
       ELSE Finish(p, Unhandled, [Called(p, "upload") EXCEPT !.file = file])
    /\ UNCHANGED <<clock, stage, table, dirs, replaced>>

\* Line 39: file_content = await file.read()
UploadRead(p, ok) ==
    /\ pc[p] = "up_read"
    /\ IF ok
       THEN Goto(p, "up_put",
                 [loc[p] EXCEPT !.file_content = loc[p].file.body])
       ELSE Finish(p, Erro(500, "Falha no upload para o S3"), loc[p])
    /\ UNCHANGED <<clock, stage, table, dirs, calls, replaced>>

\* Lines 41-58: put_object, then the response.
UploadPut(p, ok) ==
    /\ pc[p] = "up_put"
    /\ IF ok
       THEN /\ stage' = put_object(stage, loc[p].s3_key,
                                   loc[p].file_content, clock)
            /\ Finish(p, Sucesso("Dados brutos carregados para o S3",
                                 s3_url(loc[p].s3_key), -1), loc[p])
       ELSE /\ UNCHANGED stage
            /\ Finish(p, Erro(500, "Falha no upload para o S3"), loc[p])
    /\ UNCHANGED <<clock, table, dirs, calls, replaced>>

(***************************************************************************)
(* ingest_kaggle_data  (lines 61-116)                                      *)
(***************************************************************************)
\* Lines 66-72, before the try: the client, and path_to_dir = None.
KaggleCall(p, clientOk) ==
    /\ Free(p)
    /\ calls < MaxCalls
    /\ calls' = calls + 1
    /\ IF clientOk
       THEN Goto(p, "kg_download", Called(p, "kaggle"))
       ELSE Finish(p, Unhandled, Called(p, "kaggle"))
    /\ UNCHANGED <<clock, stage, table, dirs, replaced>>

\* A variant of KaggleErro: the except branch returns with no finally block.
KaggleErro_NoFinally(p, l) ==
    Finish(p, Erro(500, "Falha na ingestao do Kaggle"), l)

\* The except branch (lines 108-112); the finally block is still to run.
KaggleErro(p, l) ==
    Goto(p, "kg_finally",
         [l EXCEPT !.pending = Erro(500, "Falha na ingestao do Kaggle")])

\* The files of the directory at path (none when it does not exist).
FilesAt(ds, path) ==
    IF \E d \in ds : d.path = path
    THEN (CHOOSE d \in ds : d.path = path).files
    ELSE <<>>

\* The path of a directory that does not exist yet: the first free one.
FreshPath(ds) ==
    CHOOSE n \in 1..(Cardinality(ds) + 1) :
        /\ \A d \in ds : d.path # n
        /\ \A m \in 1..(n - 1) : \E d \in ds : d.path = m

\* Lines 77-89: kagglehub.dataset_download creates the directory and returns
\* its path, or raises and path_to_dir stays None; then glob, csv_files[0],
\* the timestamp and the key.
KaggleDownload(p, ok, files) ==
    /\ pc[p] = "kg_download"
    /\ IF ~ok
       THEN /\ UNCHANGED dirs
            /\ KaggleErro(p, loc[p])
       ELSE /\ dirs' = dirs \cup {[path |-> FreshPath(dirs), files |-> files]}
            /\ LET l == [loc[p] EXCEPT !.path_to_dir = FreshPath(dirs)]
                   csv_files == glob_csv(FilesAt(dirs', l.path_to_dir))
               IN IF csv_files = <<>>
                  THEN KaggleErro(p, l)
                  ELSE Goto(p, "kg_read",
                            [l EXCEPT
                                !.local_file = csv_files[1],
                                !.timestamp = clock,
                                !.s3_key = kaggle_key(csv_files[1].name, clock)])
    /\ UNCHANGED <<clock, stage, table, calls, replaced>>

\* Lines 92-93: open(local_file_path, 'rb') and f.read().
KaggleRead(p, ok) ==
    /\ pc[p] = "kg_read"
    /\ IF ok
       THEN Goto(p, "kg_put",
                 [loc[p] EXCEPT !.file_content = loc[p].local_file.body])
       ELSE KaggleErro(p, loc[p])
    /\ UNCHANGED <<clock, stage, table, dirs, calls, replaced>>

\* Lines 95-107: put_object, then the response.
KagglePut(p, ok) ==
    /\ pc[p] = "kg_put"
    /\ IF ok
       THEN /\ stage' = put_object(stage, loc[p].s3_key,
                                   loc[p].file_content, clock)
            /\ Goto(p, "kg_finally",
                    [loc[p] EXCEPT !.pending =
                        Sucesso("Dataset baixado do Kaggle e armazenado no S3",
                                s3_url(loc[p].s3_key), -1)])
       ELSE /\ UNCHANGED stage
            /\ KaggleErro(p, loc[p])
    /\ UNCHANGED <<clock, table, dirs, calls, replaced>>

\* shutil.rmtree(path, ignore_errors=True): the tree is removed, or the
\* removal fails and the error is ignored.
rmtree(ds, path, ok) == IF ok THEN {d \in ds : d.path # path} ELSE ds

\* Lines 113-116, the finally block, and then the pending return.
KaggleFinally(p, rmOk) ==
    /\ pc[p] = "kg_finally"
    /\ LET path == loc[p].path_to_dir
           cleans == path # 0 /\ \E d \in dirs : d.path = path
       IN /\ dirs' = IF cleans THEN rmtree(dirs, path, rmOk) ELSE dirs
          /\ Finish(p, loc[p].pending,
                    [loc[p] EXCEPT
                        !.finally_runs = @ + 1,
                        !.rmtree_calls = IF cleans THEN @ + 1 ELSE @])
    /\ UNCHANGED <<clock, stage, table, calls, replaced>>

(***************************************************************************)
(* load_raw_to_db  (lines 121-171)                                         *)
(***************************************************************************)
LoadErro == Erro(500, "Falha na estruturacao (S3 -> DB)")

\* Lines 125-135, before the try: the client and the database URL.
LoadCall(p, clientOk) ==
    /\ Free(p)
    /\ calls < MaxCalls
    /\ calls' = calls + 1
    /\ IF clientOk
       THEN Goto(p, "ld_list", Called(p, "load"))
       ELSE Finish(p, Unhandled, Called(p, "load"))
    /\ UNCHANGED <<clock, stage, table, dirs, replaced>>

\* The greatest LastModified of a set of objects (-1 for none).
Newest(objs) ==
    IF objs = {} THEN -1
    ELSE CHOOSE t \in {o.LastModified : o \in objs} :
            \A o \in objs : o.LastModified <= t

\* A variant of LoadList: no test for 'Contents'; max() of nothing raises.
LoadList_NoContentsTest(p, ok) ==
    /\ pc[p] = "ld_list"
    /\ IF ~ok
       THEN Finish(p, LoadErro, loc[p])
       ELSE LET contents == list_objects_v2(stage)
                l == [loc[p] EXCEPT !.listed = 1,
                                    !.seen = Cardinality(stage),
                                    !.newest = Newest(stage)]
            IN IF contents = <<>>
               THEN Finish(p, LoadErro, l)
               ELSE Goto(p, "ld_get",
                         [l EXCEPT !.latest = max_LastModified(contents)])
    /\ UNCHANGED <<clock, stage, table, dirs, calls, replaced>>

\* Lines 139-145: one list_objects_v2 call; 404 without 'Contents';
\* else the item of greatest LastModified.
LoadList(p, ok) ==
    /\ pc[p] = "ld_list"
    /\ IF ~ok
       THEN Finish(p, LoadErro, loc[p])
       ELSE LET contents == list_objects_v2(stage)
                l == [loc[p] EXCEPT !.listed = 1,
                                    !.seen = Cardinality(stage),
                                    !.newest = Newest(stage)]
            IN IF contents = <<>>
               THEN Finish(p, Erro(404, "Nenhum arquivo encontrado no S3."), l)
               ELSE Goto(p, "ld_get",
                         [l EXCEPT !.latest = max_LastModified(contents)])
    /\ UNCHANGED <<clock, stage, table, dirs, calls, replaced>>

\* Lines 148-150: get_object, Body.read() and pd.read_csv.
LoadGet(p, ok) ==
    /\ pc[p] = "ld_get"
    /\ LET body == get_object(stage, loc[p].latest.Key)
       IN IF ok /\ ~read_csv_fails(body)
          THEN Goto(p, "ld_write",
                    [loc[p] EXCEPT !.file_content = body,
                                   !.df = read_csv(body)])
          ELSE Finish(p, LoadErro, loc[p])
    /\ UNCHANGED <<clock, stage, table, dirs, calls, replaced>>

\* Lines 153-171: create_engine, to_sql and the response with len(df_raw).
LoadWrite(p, engineOk, ok) ==
    /\ pc[p] = "ld_write"
    /\ IF ~engineOk
       THEN /\ UNCHANGED <<table, replaced>>
            /\ Finish(p, LoadErro, loc[p])
       ELSE /\ table' = to_sql(table, loc[p].df, ok)
            /\ replaced' =
                 IF ok THEN [n |-> 1,
                             Key |-> loc[p].latest.Key,
                             LastModified |-> loc[p].latest.LastModified,
                             newest |-> loc[p].newest,
                             body |-> loc[p].file_content]
                 ELSE replaced
            /\ Finish(p,
                      IF ok THEN Sucesso("Dados brutos do S3 carregados",
                                         <<>>, Len(loc[p].df.rows))
                      ELSE LoadErro,
                      [loc[p] EXCEPT !.sink_calls = @ + 1])
    /\ UNCHANGED <<clock, stage, dirs, calls>>

(***************************************************************************)
(* The environment and the specifications.                                 *)
(***************************************************************************)
\* A second passes.
Tick ==
    /\ clock < MaxTime
    /\ clock' = clock + 1
    /\ UNCHANGED <<stage, table, dirs, pc, loc, result, calls, replaced>>

\* The response has been sent: the task is free for the next request.
Return(p) ==
    /\ pc[p] = "done"
    /\ pc' = [pc EXCEPT ![p] = "idle"]
    /\ loc' = [loc EXCEPT ![p] = NoLocals]
    /\ result' = [result EXCEPT ![p] = NoResult]
    /\ UNCHANGED <<clock, stage, table, dirs, calls, replaced>>

Call(p) ==
    \/ \E file \in UploadFiles, ok \in BOOLEAN : UploadCall(p, file, ok)
    \/ \E ok \in BOOLEAN : KaggleCall(p, ok)
    \/ \E ok \in BOOLEAN : LoadCall(p, ok)

Step(p) ==
    \/ \E ok \in BOOLEAN : UploadRead(p, ok)
    \/ \E ok \in BOOLEAN : UploadPut(p, ok)
    \/ \E ok \in BOOLEAN, files \in Downloads : KaggleDownload(p, ok, files)
    \/ \E ok \in BOOLEAN : KaggleRead(p, ok)
    \/ \E ok \in BOOLEAN : KagglePut(p, ok)
    \/ \E ok \in BOOLEAN : KaggleFinally(p, ok)
    \/ \E ok \in BOOLEAN : LoadList(p, ok)
    \/ \E ok \in BOOLEAN : LoadGet(p, ok)
    \/ \E engineOk \in BOOLEAN, ok \in BOOLEAN : LoadWrite(p, engineOk, ok)
    \/ Return(p)

\* Requests served one at a time: the next is taken when the one before
\* has been answered.
Next ==
    \/ Tick
    \/ AllFree /\ Call(Main)
    \/ \E p \in Procs : Step(p)

Spec == Init /\ [][Next]_vars

\* Several workers: the first takes any request, the second takes
\* load_raw_to_db requests, while the other is serving one.
NextConc ==
    \/ Tick
    \/ Call(Main)
    \/ \E p \in Procs \ {Main}, ok \in BOOLEAN : LoadCall(p, ok)
    \/ \E p \in Procs : Step(p)

SpecConc == Init /\ [][NextConc]_vars

(***************************************************************************)
(* Properties.                                                             *)
(***************************************************************************)
\* Task p has answered a request for endpoint op.
Answered(p, op) == pc[p] = "done" /\ loc[p].op = op
Succeeded(p, op) == Answered(p, op) /\ result[p].status = "sucesso"

\* C1: load_raw_to_db loads the content of the staged object of greatest
\* last-modified time, however many objects are staged: a load that fetched
\* an object fetched one that no staged object is newer than.
C1_LoadsNewest ==
    \A p \in Procs :
        Succeeded(p, "load")
            => \E o \in stage : /\ o.Key = loc[p].latest.Key
                                /\ o.Body = loc[p].file_content
                                /\ o.LastModified = Newest(stage)

\* What does hold of the selection: when everything staged fits in one
\* answer of list_objects_v2, the object fetched is a newest one.
SelectsNewestOfOnePage ==
    \A p \in Procs :
        (Answered(p, "load") /\ loc[p].latest # NoItem /\ loc[p].seen <= MaxKeys)
            => loc[p].latest.LastModified = loc[p].newest

\* C2: no two writes use the same stage key: a put_object of upload_data or
\* ingest_kaggle_data that succeeds finds no object under its key.
PutSucceeds(p) ==
    \/ pc[p] = "up_put" /\ result'[p].status = "sucesso"
    \/ pc[p] = "kg_put" /\ loc'[p].pending.status = "sucesso"
C2_KeysNeverReused ==
    [][\A p \in Procs :
          PutSucceeds(p) => \A o \in stage : o.Key # loc[p].s3_key]_vars

\* C3: a load_raw_to_db whose listing finds nothing under raw_data/ answers
\* 404 with status erro, makes no sink call and leaves the table as it was.
C3_EmptyStageNotFound ==
    \A p \in Procs :
        (Answered(p, "load") /\ loc[p].listed = 1 /\ loc[p].seen = 0)
            => /\ result[p].code = 404
               /\ result[p].status = "erro"
               /\ loc[p].sink_calls = 0
               /\ table = loc[p].table0
C3_Witness ==
    \E p \in Procs :
        /\ Answered(p, "load") /\ loc[p].listed = 1 /\ loc[p].seen = 0
        /\ table = OldTable

\* Whether the directory of p's invocation is on disk.
DirLeft(p) == \E d \in dirs : d.path = loc[p].path_to_dir

C5_AlwaysStructured ==
    \A p \in Procs :
        pc[p] = "done" =>
            \/ result[p].status = "sucesso" /\ result[p].code = 200
            \/ result[p].status = "erro" /\ result[p].code = 500
            \/ /\ result[p].status = "erro" /\ result[p].code = 404
               /\ loc[p].op = "load"

NonBlank(body) == {i \in 1..Len(body) : body[i] # ""}
Nth(idx, k) == CHOOSE i \in idx : Cardinality({j \in idx : j < i}) = k - 1

\* C7: after a successful load_raw_to_db the table holds the data rows of
\* the object selected, in order, under its header, and nothing else;
\* rows_loaded is the number of its data rows, the header not counted.
C7_TableIsSelectedObject ==
    \A p \in Procs :
        Succeeded(p, "load") =>
            LET body == loc[p].file_content
                idx == NonBlank(body)
                n == Cardinality(idx) - 1
            IN /\ \E o \in stage : o.Key = loc[p].latest.Key /\ o.Body = body
               /\ table.exists
               /\ table.columns = body[Nth(idx, 1)]
               /\ table.rows = [k \in 1..n |-> body[Nth(idx, k + 1)]]
               /\ result[p].rows_loaded = n
               /\ result[p].code = 200
C7_Witness ==
    \E p \in Procs :
        /\ Succeeded(p, "load")
        /\ loc[p].table0.exists /\ loc[p].table0.rows # <<>>
        /\ loc[p].table0.columns # table.columns
        /\ loc[p].file_content = P_ab2 /\ result[p].rows_loaded = 2

\* The part of a filename before its first dot and the part after its last
\* dot (the whole name when it has no dot).
DotsOf(F) == {i \in 1..Len(F) : F[i] = "."}
BeforeFirstDot(F) ==
    IF DotsOf(F) = {} THEN F
    ELSE SubSeq(F, 1, (CHOOSE i \in DotsOf(F) : \A j \in DotsOf(F) : i <= j) - 1)
AfterLastDot(F) ==
    IF DotsOf(F) = {} THEN F
    ELSE SubSeq(F, (CHOOSE i \in DotsOf(F) : \A j \in DotsOf(F) : j <= i) + 1,
                Len(F))
Raw_t_0_csv ==
    <<"r", "a", "w", "_", "d", "a", "t", "a", "/", "t", "_", "0", ".",
      "c", "s", "v">>

Acting(p) == pc'[p] # pc[p]
OpOf(p) == IF pc[p] = "idle" THEN loc'[p].op ELSE loc[p].op

\* C9: a step of upload_data or ingest_kaggle_data leaves the table as it
\* is, a step of load_raw_to_db leaves the stage as it is, and no step
\* removes a staged key.
C9_EachToItsStore ==
    [][/\ \A p \in Procs :
            Acting(p) =>
              /\ OpOf(p) \in {"upload", "kaggle"} => table' = table
              /\ OpOf(p) = "load" => stage' = stage
       /\ {o.Key : o \in stage} \subseteq {o.Key : o \in stage'}]_vars
C9_Witness ==
    /\ table.exists /\ table # OldTable
    /\ Cardinality(stage) >= 2
    /\ \E p \in Procs : Answered(p, "kaggle") /\ result[p].status = "erro"

\* No task is inside an endpoint.
Quiet == \A p \in Procs : pc[p] \in {"idle", "done"}

\* C10: once every invocation has returned, the table holds the complete
\* content of the object selected by the load whose replace was applied
\* last, and that object was the newest staged when that load listed.
C10_LastWriterLoadedNewest ==
    (Quiet /\ replaced.n = 1) =>
        /\ table = to_sql(NoTable, read_csv(replaced.body), TRUE)
        /\ replaced.LastModified = replaced.newest

\* What does hold under concurrency: the table is whole, the content one
\* load fetched.
TableIsOneObject ==
    replaced.n = 1 => table = to_sql(NoTable, read_csv(replaced.body), TRUE)

====
